---- MODULE Spec2Model ----
(***************************************************************************)
(* Model of `gh variable get` (pkg/cmd/variable/get/get.go).               *)
(*                                                                         *)
(* One behaviour is one invocation of the command: cobra has parsed the    *)
(* flags into opts, RunE validates the selectors and calls getRun, which   *)
(* creates the HTTP client, resolves the variable entity, the base         *)
(* repository, the path, the configuration and the default host, issues    *)
(* the GET and prints the value.  Strings are TLA+ strings, so the paths   *)
(* and the error messages are built by concatenation as fmt.Sprintf and    *)
(* fmt.Errorf build them.                                                  *)
(***************************************************************************)
EXTENDS Integers, Sequences, FiniteSets, TLC

VARIABLES
    pc,              \* position in RunE / getRun
    args,            \* positional arguments (cobra.ExactArgs(1))
    opts,            \* GetOptions: OrgName, EnvName, VariableName
    tty,             \* whether opts.IO.Out is an interactive terminal
    httpClientResult,\* what opts.HttpClient() returns
    baseRepoResult,  \* what opts.BaseRepo() returns
    configResult,    \* what opts.Config() returns, with its default host
    variableEntity,  \* local variableEntity of getRun
    baseRepo,        \* local baseRepo of getRun
    path,            \* local path of getRun
    host,            \* local host of getRun
    response,        \* local response of getRun (getVariableResponse)
    reply,           \* what the remote answered to the GET
    requests,        \* requests issued through the transport
    out,             \* bytes written to opts.IO.Out
    err,             \* the error the invocation returns
    calls            \* collaborator calls, in the order they were made

vars == <<pc, args, opts, tty, httpClientResult, baseRepoResult, configResult,
          variableEntity, baseRepo, path, host, response, reply, requests,
          out, err, calls>>

----------------------------------------------------------------------------
(* Bounds of the input sets *)

MaxNames == 2
MaxValues == 3

NameUniverse == <<"VARIABLE_ONE", "FOO", "BAR", "BAZ", "QUX">>
ValueUniverse == <<"repo_var", "", "line1\nline2", "org_var", "env_var">>

Prefix(seq, n) == {seq[i] : i \in 1..(IF n < Len(seq) THEN n ELSE Len(seq))}

VariableNames == Prefix(NameUniverse, MaxNames)
Values == Prefix(ValueUniverse, MaxValues)
OrgNames == {"", "TestOrg"}
EnvNames == {"", "Development"}
Hosts == {"github.com", "ghe.io"}

----------------------------------------------------------------------------
(* Errors: a message, an HTTP status for api.HTTPError, and the wrapped     *)
(* error (at most one) that errors.Unwrap returns.                          *)

NoError == [kind |-> "nil", msg |-> "", status |-> 0, cause |-> <<>>]

NewError(m) == [kind |-> "error", msg |-> m, status |-> 0, cause |-> <<>>]

\* fmt.Errorf(prefix + "%w", e)
Wrapf(prefix, e) ==
    [kind |-> "wrapError", msg |-> prefix \o e.msg, status |-> 0, cause |-> <<e>>]

\* cmdutil.FlagErrorf("%s", m)
FlagErrorf(m) == [kind |-> "FlagError", msg |-> m, status |-> 0, cause |-> <<>>]

StatusNotFound == 404

\* The message of RunE's selector check.  The source quotes --org and --env
\* with backquotes, a character a TLA+ string cannot hold; ' stands for it.
SelectorsMessage == "specify only one of '--org' or '--env'"

HttpClientErr == NewError("authentication required")
BaseRepoErr == NewError("could not determine base repo")
ConfigErr == NewError("could not read configuration")
TransportErr == NewError("dial tcp: connection refused")
DecodeErr == NewError("invalid character '<' looking for beginning of value")

\* The URL prefix of a REST request; the expected error of the tests shows it
\* for github.com, the other hosts take the enterprise form.
RESTPrefix(hostname) ==
    IF hostname = "github.com"
    THEN "https://api.github.com/"
    ELSE "https://" \o hostname \o "/api/v3/"

HTTPError(status, url) ==
    [kind |-> "HTTPError",
     msg |-> "HTTP " \o ToString(status) \o " (" \o url \o ")",
     status |-> status,
     cause |-> <<>>]

\* errors.As(err, &httpErr): the first api.HTTPError in the chain, if any
RECURSIVE AsHTTPError(_)
AsHTTPError(e) ==
    IF e.kind = "HTTPError" THEN <<e>>
    ELSE IF e.cause = <<>> THEN <<>>
    ELSE AsHTTPError(e.cause[1])

----------------------------------------------------------------------------
(* Collaborators *)

NilRepo == [isNil |-> TRUE, owner |-> "", name |-> ""]
Repo(o, n) == [isNil |-> FALSE, owner |-> o, name |-> n]
Repos == {Repo("owner", "repo"), Repo("cli", "go-gh")}

\* ghrepo.FullName
FullName(r) == r.owner \o "/" \o r.name

HttpClientResults == {[err |-> NoError], [err |-> HttpClientErr]}

BaseRepoResults ==
    {[repo |-> r, err |-> NoError] : r \in Repos}
        \cup {[repo |-> NilRepo, err |-> BaseRepoErr]}

ConfigResults ==
    {[defaultHost |-> h, err |-> NoError] : h \in Hosts}
        \cup {[defaultHost |-> "", err |-> ConfigErr]}

\* Response bodies: a JSON object that may carry "value" and carries other
\* fields, or text that is no JSON at all.
Bodies ==
    {[json |-> TRUE, hasValue |-> TRUE, value |-> v, name |-> n, visibility |-> "all"] :
        v \in Values, n \in VariableNames}
    \cup {[json |-> TRUE, hasValue |-> FALSE, value |-> "", name |-> n, visibility |-> "all"] :
        n \in VariableNames}
    \cup {[json |-> FALSE, hasValue |-> FALSE, value |-> "", name |-> "", visibility |-> ""]}

EmptyBody == [json |-> FALSE, hasValue |-> FALSE, value |-> "", name |-> "", visibility |-> ""]

NoReply == [kind |-> "none", status |-> 0, body |-> EmptyBody]

Statuses == {200, 400, 404, 500}

Replies ==
    {[kind |-> "status", status |-> 200, body |-> b] : b \in Bodies}
    \cup {[kind |-> "status", status |-> s, body |-> EmptyBody] : s \in Statuses \ {200}}
    \cup {[kind |-> "failure", status |-> 0, body |-> EmptyBody]}

\* getVariableResponse: only the value field is decoded
ZeroResponse == [Value |-> ""]
Decode(body) == [Value |-> IF body.hasValue THEN body.value ELSE ""]

\* api.Client.REST(hostname, method, p, nil, &data) against a remote that
\* answers r
REST(hostname, method, p, r) ==
    IF r.kind = "failure" THEN [err |-> TransportErr, data |-> ZeroResponse]
    ELSE IF r.status >= 200 /\ r.status < 300
    THEN IF r.body.json
         THEN [err |-> NoError, data |-> Decode(r.body)]
         ELSE [err |-> DecodeErr, data |-> ZeroResponse]
    ELSE [err |-> HTTPError(r.status, RESTPrefix(hostname) \o p), data |-> ZeroResponse]

\* cmdutil.MutuallyExclusive(message, conditions...)
MutuallyExclusive(message, conditions) ==
    IF Cardinality({i \in DOMAIN conditions : conditions[i]}) > 1
    THEN FlagErrorf(message)
    ELSE NoError

\* shared.GetVariableEntity(orgName, envName)
GetVariableEntity(orgName, envName) ==
    IF orgName # "" /\ envName # ""
    THEN [entity |-> "", err |-> NewError(SelectorsMessage)]
    ELSE IF orgName # "" THEN [entity |-> "Organization", err |-> NoError]
    ELSE IF envName # "" THEN [entity |-> "Environment", err |-> NoError]
    ELSE [entity |-> "Repository", err |-> NoError]

----------------------------------------------------------------------------
(* The decisions of RunE and getRun *)

ValidateSelectors_OrgTwice(o) ==
    MutuallyExclusive(SelectorsMessage,
                      <<o.OrgName # "", o.OrgName = "">>)

\* RunE: the selectors must not both be given
ValidateSelectors(o) ==
    MutuallyExclusive(SelectorsMessage,
                      <<o.OrgName # "", o.EnvName # "">>)

EntityOf_Swapped(o) == GetVariableEntity(o.EnvName, o.OrgName)

\* getRun: orgName, envName and the entity resolved from them
EntityOf(o) == GetVariableEntity(o.OrgName, o.EnvName)

NeedsBaseRepo_Always(entity) == TRUE

\* getRun: the entities that need the base repository
NeedsBaseRepo(entity) == entity = "Repository" \/ entity = "Environment"

PathOf_EnvAsRepo(entity, o, repo) ==
    CASE entity = "Organization" ->
            "orgs/" \o o.OrgName \o "/actions/variables/" \o o.VariableName
      [] entity = "Environment" ->
            "repos/" \o FullName(repo) \o "/actions/variables/" \o o.VariableName
      [] entity = "Repository" ->
            "repos/" \o FullName(repo) \o "/actions/variables/" \o o.VariableName
      [] OTHER -> ""

\* getRun: the switch over variableEntity; no case leaves path empty
PathOf(entity, o, repo) ==
    CASE entity = "Organization" ->
            "orgs/" \o o.OrgName \o "/actions/variables/" \o o.VariableName
      [] entity = "Environment" ->
            "repos/" \o FullName(repo) \o "/environments/" \o o.EnvName
                \o "/variables/" \o o.VariableName
      [] entity = "Repository" ->
            "repos/" \o FullName(repo) \o "/actions/variables/" \o o.VariableName
      [] OTHER -> ""

IssueGET_Retry(reqs, h, p, r) ==
    IF REST(h, "GET", p, r).err # NoError
    THEN reqs \o <<[method |-> "GET", host |-> h, path |-> p],
                   [method |-> "GET", host |-> h, path |-> p]>>
    ELSE Append(reqs, [method |-> "GET", host |-> h, path |-> p])

\* getRun: client.REST(host, "GET", path, nil, &response) is called once
IssueGET(reqs, h, p, r) == Append(reqs, [method |-> "GET", host |-> h, path |-> p])

RequestError_AnyHTTP(e, name) ==
    LET httpErr == AsHTTPError(e) IN
    IF httpErr # <<>>
    THEN NewError("variable " \o name \o " was not found")
    ELSE Wrapf("failed to get variable " \o name \o ": ", e)

RequestError_AlwaysWrapped(e, name) ==
    Wrapf("failed to get variable " \o name \o ": ", e)

\* getRun: the error returned when client.REST fails with e
RequestError(e, name) ==
    LET httpErr == AsHTTPError(e) IN
    IF httpErr # <<>> /\ httpErr[1].status = StatusNotFound
    THEN NewError("variable " \o name \o " was not found")
    ELSE Wrapf("failed to get variable " \o name \o ": ", e)

Fprintf_Decorated(buf, value) ==
    IF tty THEN buf \o "value: " \o value \o "\n" ELSE buf \o value \o "\n"

\* fmt.Fprintf(opts.IO.Out, "%s\n", response.Value)
Fprintf(buf, value) == buf \o value \o "\n"

----------------------------------------------------------------------------
(* The state after construction and flag parsing *)

Init ==
    /\ pc = "RunE"
    /\ args \in {<<n>> : n \in VariableNames}
    /\ opts \in [OrgName : OrgNames, EnvName : EnvNames, VariableName : {""}]
    /\ tty \in BOOLEAN
    /\ httpClientResult \in HttpClientResults
    /\ baseRepoResult \in BaseRepoResults
    /\ configResult \in ConfigResults
    /\ variableEntity = ""
    /\ baseRepo = NilRepo
    /\ path = ""
    /\ host = ""
    /\ response = ZeroResponse
    /\ reply = NoReply
    /\ requests = <<>>
    /\ out = ""
    /\ err = NoError
    /\ calls = <<>>

Return(e) == pc' = "done" /\ err' = e

\* RunE: selector validation, opts.VariableName = args[0], then getRun
RunE ==
    /\ pc = "RunE"
    /\ LET e == ValidateSelectors(opts) IN
       IF e # NoError
       THEN Return(e) /\ UNCHANGED opts
       ELSE /\ opts' = [opts EXCEPT !.VariableName = args[1]]
            /\ pc' = "HttpClient"
            /\ UNCHANGED err
    /\ UNCHANGED <<args, tty, httpClientResult, baseRepoResult, configResult,
                   variableEntity, baseRepo, path, host, response, reply,
                   requests, out, calls>>

\* getRun: c, err := opts.HttpClient()
CreateHttpClient ==
    /\ pc = "HttpClient"
    /\ calls' = Append(calls, "HttpClient")
    /\ IF httpClientResult.err # NoError
       THEN Return(Wrapf("could not create http client: ", httpClientResult.err))
       ELSE pc' = "GetVariableEntity" /\ UNCHANGED err
    /\ UNCHANGED <<args, opts, tty, httpClientResult, baseRepoResult,
                   configResult, variableEntity, baseRepo, path, host, response,
                   reply, requests, out>>

\* getRun: variableEntity, err := shared.GetVariableEntity(orgName, envName)
ResolveEntity ==
    /\ pc = "GetVariableEntity"
    /\ calls' = Append(calls, "GetVariableEntity")
    /\ LET r == EntityOf(opts) IN
       /\ variableEntity' = r.entity
       /\ IF r.err # NoError
          THEN Return(r.err)
          ELSE pc' = "BaseRepo" /\ UNCHANGED err
    /\ UNCHANGED <<args, opts, tty, httpClientResult, baseRepoResult,
                   configResult, baseRepo, path, host, response, reply,
                   requests, out>>

\* getRun: baseRepo, err = opts.BaseRepo() for Repository and Environment
ResolveBaseRepo ==
    /\ pc = "BaseRepo"
    /\ IF NeedsBaseRepo(variableEntity)
       THEN /\ calls' = Append(calls, "BaseRepo")
            /\ baseRepo' = baseRepoResult.repo
            /\ IF baseRepoResult.err # NoError
               THEN Return(baseRepoResult.err)
               ELSE pc' = "Path" /\ UNCHANGED err
       ELSE /\ pc' = "Path"
            /\ UNCHANGED <<calls, baseRepo, err>>
    /\ UNCHANGED <<args, opts, tty, httpClientResult, baseRepoResult,
                   configResult, variableEntity, path, host, response, reply,
                   requests, out>>

\* getRun: the path of the resolved entity
BuildPath ==
    /\ pc = "Path"
    /\ path' = PathOf(variableEntity, opts, baseRepo)
    /\ pc' = "Config"
    /\ UNCHANGED <<args, opts, tty, httpClientResult, baseRepoResult,
                   configResult, variableEntity, baseRepo, host, response,
                   reply, requests, out, err, calls>>

GetConfig_Wrapped ==
    /\ pc = "Config"
    /\ calls' = Append(calls, "Config")
    /\ IF configResult.err # NoError
       THEN Return(Wrapf("could not read config: ", configResult.err))
       ELSE pc' = "DefaultHost" /\ UNCHANGED err
    /\ UNCHANGED <<args, opts, tty, httpClientResult, baseRepoResult,
                   configResult, variableEntity, baseRepo, path, host, response,
                   reply, requests, out>>

\* getRun: cfg, err := opts.Config()
GetConfig ==
    /\ pc = "Config"
    /\ calls' = Append(calls, "Config")
    /\ IF configResult.err # NoError
       THEN Return(configResult.err)
       ELSE pc' = "DefaultHost" /\ UNCHANGED err
    /\ UNCHANGED <<args, opts, tty, httpClientResult, baseRepoResult,
                   configResult, variableEntity, baseRepo, path, host, response,
                   reply, requests, out>>

\* getRun: host, _ := cfg.Authentication().DefaultHost()
GetDefaultHost ==
    /\ pc = "DefaultHost"
    /\ calls' = Append(calls, "DefaultHost")
    /\ host' = configResult.defaultHost
    /\ pc' = "REST"
    /\ UNCHANGED <<args, opts, tty, httpClientResult, baseRepoResult,
                   configResult, variableEntity, baseRepo, path, response,
                   reply, requests, out, err>>

DoREST_PrintsMessage ==
    /\ pc = "REST"
    /\ \E r \in Replies :
        LET res == REST(host, "GET", path, r) IN
        /\ reply' = r
        /\ calls' = Append(calls, "REST")
        /\ requests' = IssueGET(requests, host, path, r)
        /\ IF res.err # NoError
           THEN /\ Return(RequestError(res.err, opts.VariableName))
                /\ out' = Fprintf(out, RequestError(res.err, opts.VariableName).msg)
                /\ UNCHANGED response
           ELSE /\ response' = res.data
                /\ pc' = "Print"
                /\ UNCHANGED <<err, out>>
    /\ UNCHANGED <<args, opts, tty, httpClientResult, baseRepoResult,
                   configResult, variableEntity, baseRepo, path, host>>

\* getRun: the GET and the mapping of its failure
DoREST ==
    /\ pc = "REST"
    /\ \E r \in Replies :
        LET res == REST(host, "GET", path, r) IN
        /\ reply' = r
        /\ calls' = Append(calls, "REST")
        /\ requests' = IssueGET(requests, host, path, r)
        /\ IF res.err # NoError
           THEN /\ Return(RequestError(res.err, opts.VariableName))
                /\ UNCHANGED response
           ELSE /\ response' = res.data
                /\ pc' = "Print"
                /\ UNCHANGED err
    /\ UNCHANGED <<args, opts, tty, httpClientResult, baseRepoResult,
                   configResult, variableEntity, baseRepo, path, host, out>>

\* getRun: print the value and return nil
PrintValue ==
    /\ pc = "Print"
    /\ calls' = Append(calls, "Write")
    /\ out' = Fprintf(out, response.Value)
    /\ Return(NoError)
    /\ UNCHANGED <<args, opts, tty, httpClientResult, baseRepoResult,
                   configResult, variableEntity, baseRepo, path, host, response,
                   reply, requests>>

Next ==
    \/ RunE
    \/ CreateHttpClient
    \/ ResolveEntity
    \/ ResolveBaseRepo
    \/ BuildPath
    \/ GetConfig
    \/ GetDefaultHost
    \/ DoREST
    \/ PrintValue

Spec == Init /\ [][Next]_vars

----------------------------------------------------------------------------
(* Properties *)

Called(c) == \E i \in DOMAIN calls : calls[i] = c

Count(c) == Cardinality({i \in DOMAIN calls : calls[i] = c})

BothSelectors == opts.OrgName # "" /\ opts.EnvName # ""

\* The error client.REST returned for the reply the remote gave
Underlying == REST(configResult.defaultHost, "GET", path, reply).err

\* The place of each collaborator call in getRun
Rank(c) ==
    CASE c = "HttpClient" -> 1
      [] c = "GetVariableEntity" -> 2
      [] c = "BaseRepo" -> 3
      [] c = "Config" -> 4
      [] c = "DefaultHost" -> 5
      [] c = "REST" -> 6
      [] c = "Write" -> 7

\* C1: when both the organization and the environment selector are given,
\* whatever the variable name, the invocation fails with the conflicting-
\* selectors flag error, and it does so before any request is issued, before
\* the base repository is asked for and without writing anything.
C1_ConflictingSelectors ==
    BothSelectors =>
        /\ pc \in {"RunE", "done"}
        /\ requests = <<>>
        /\ ~Called("BaseRepo")
        /\ ~Called("REST")
        /\ out = ""
        /\ (pc = "done" => err = FlagErrorf(SelectorsMessage))

C1_Witness ==
    /\ BothSelectors
    /\ pc = "done"
    /\ err.kind = "FlagError"
    /\ args = <<"FOO">>

\* C2: when the selectors are not both given, the resolved entity is a
\* function of which selector is non-empty: Organization for the organization
\* name alone, Environment for the environment name alone, Repository for
\* neither; it is one of the three entities.
C2_ScopeResolution ==
    (Called("GetVariableEntity") /\ ~BothSelectors) =>
        /\ variableEntity \in {"Repository", "Environment", "Organization"}
        /\ (opts.OrgName # "" /\ opts.EnvName = "" => variableEntity = "Organization")
        /\ (opts.OrgName = "" /\ opts.EnvName # "" => variableEntity = "Environment")
        /\ (opts.OrgName = "" /\ opts.EnvName = "" => variableEntity = "Repository")

C2_Witness ==
    /\ pc = "done"
    /\ opts.OrgName = ""
    /\ opts.EnvName = "Development"
    /\ variableEntity = "Environment"

\* C3: every request issued is a GET to the configured default host whose
\* path is the template of the resolved entity, filled with the organization
\* name, the owner and name of the base repository, the environment name and
\* the variable name; the path is never empty.
C3_RequestPath ==
    \A i \in DOMAIN requests :
        LET owner == baseRepoResult.repo.owner
            repo == baseRepoResult.repo.name
        IN  /\ requests[i].method = "GET"
            /\ requests[i].host = configResult.defaultHost
            /\ requests[i].path # ""
            /\ variableEntity \in {"Repository", "Environment", "Organization"}
            /\ (variableEntity = "Organization" =>
                    requests[i].path =
                        "orgs/" \o opts.OrgName \o "/actions/variables/" \o args[1])
            /\ (variableEntity = "Environment" =>
                    requests[i].path =
                        "repos/" \o owner \o "/" \o repo \o "/environments/"
                            \o opts.EnvName \o "/variables/" \o args[1])
            /\ (variableEntity = "Repository" =>
                    requests[i].path =
                        "repos/" \o owner \o "/" \o repo \o "/actions/variables/"
                            \o args[1])

C3_Witness ==
    /\ requests # <<>>
    /\ requests[1].host = "ghe.io"
    /\ requests[1].path =
          "repos/owner/repo/environments/Development/variables/VARIABLE_ONE"

\* C4: when the GET succeeds, the output is the value field of the response
\* followed by one newline, written once, whatever the other fields of the
\* response and whether or not the output is a terminal.
C4_Output ==
    (pc = "done" /\ err = NoError) =>
        /\ reply.kind = "status"
        /\ Count("Write") = 1
        /\ out = (IF reply.body.hasValue THEN reply.body.value ELSE "") \o "\n"

C4_Witness ==
    /\ pc = "done"
    /\ err = NoError
    /\ tty
    /\ reply.body.name # ""
    /\ out = "repo_var\n"

\* C5: when the remote answers 404, for any entity, the invocation fails
\* with the error "variable {name} was not found", which wraps nothing, and
\* nothing is written.
C5_NotFound ==
    (pc = "done" /\ reply.kind = "status" /\ reply.status = 404) =>
        /\ err = NewError("variable " \o args[1] \o " was not found")
        /\ out = ""

C5_Witness ==
    /\ pc = "done"
    /\ reply.kind = "status"
    /\ reply.status = 404
    /\ variableEntity = "Organization"
    /\ err.msg = "variable VARIABLE_ONE was not found"

\* C6: when the GET fails otherwise (a status other than 404, or a failure
\* without a status), the invocation fails with an error whose message is
\* "failed to get variable {name}: " followed by the message of the
\* underlying error, which it wraps; it is not the not-found error.
C6_RequestFailure ==
    (/\ pc = "done"
     /\ reply.kind # "none"
     /\ Underlying # NoError
     /\ ~(reply.kind = "status" /\ reply.status = 404)) =>
        /\ err.msg = "failed to get variable " \o args[1] \o ": " \o Underlying.msg
        /\ err.cause = <<Underlying>>
        /\ err.msg # "variable " \o args[1] \o " was not found"

C6_Witness ==
    /\ pc = "done"
    /\ reply.status = 400
    /\ err.msg = "failed to get variable VARIABLE_ONE: HTTP 400 (https://api.github.com/repos/owner/repo/actions/variables/VARIABLE_ONE)"

\* C7: an invocation never issues more than one request, and it has issued
\* exactly one when it ends after the entity, the base repository (where
\* needed) and the default host were resolved.
C7_OneRequest ==
    /\ Len(requests) <= 1
    /\ Count("REST") <= 1
    /\ (/\ pc = "done"
        /\ variableEntity # ""
        /\ (variableEntity \in {"Repository", "Environment"} =>
                baseRepoResult.err = NoError)
        /\ configResult.err = NoError) => Len(requests) = 1

C7_Witness ==
    /\ pc = "done"
    /\ Len(requests) = 1
    /\ reply.kind = "failure"
    /\ err # NoError

\* C8: the base repository is asked for exactly when the entity is
\* Repository or Environment, and before the request; an Organization
\* invocation never asks for it and its result does not depend on it; when a
\* request is issued a repository is held exactly for those two entities.
C8_BaseRepo ==
    /\ (Called("BaseRepo") => variableEntity \in {"Repository", "Environment"})
    /\ (variableEntity \in {"Repository", "Environment"} /\ pc # "BaseRepo"
            => Called("BaseRepo"))
    /\ (Called("REST") =>
            (baseRepo # NilRepo <=> variableEntity \in {"Repository", "Environment"}))
    /\ \A i, j \in DOMAIN calls :
            (calls[i] = "BaseRepo" /\ calls[j] = "REST") => i < j
    /\ (variableEntity = "Organization" =>
            /\ baseRepo = NilRepo
            /\ err # BaseRepoErr
            /\ err.cause # <<BaseRepoErr>>)

C8_Witness ==
    /\ pc = "done"
    /\ variableEntity = "Organization"
    /\ baseRepoResult.err # NoError
    /\ err = NoError

\* C9: when the base repository or the configuration cannot be obtained,
\* the invocation returns the collaborator's error itself, no request is
\* issued and nothing is written; the calls are made in the order entity,
\* base repository, configuration, default host, request.
C9_ContextFailure ==
    /\ (/\ pc = "done"
        /\ Called("BaseRepo")
        /\ baseRepoResult.err # NoError) =>
            /\ err = baseRepoResult.err
            /\ requests = <<>>
            /\ ~Called("Config")
            /\ out = ""
    /\ (/\ pc = "done"
        /\ Called("Config")
        /\ configResult.err # NoError) =>
            /\ err = configResult.err
            /\ requests = <<>>
            /\ out = ""
    /\ \A i, j \in DOMAIN calls : i < j => Rank(calls[i]) < Rank(calls[j])

C9_Witness ==
    /\ pc = "done"
    /\ Called("BaseRepo")
    /\ Called("Config")
    /\ err = ConfigErr

\* C10: an invocation that has ended returned no error exactly when it wrote
\* one line; whenever it returned an error the output is empty.
C10_SuccessIffOutput ==
    pc = "done" =>
        /\ (err = NoError <=> Count("Write") = 1)
        /\ (err = NoError => Len(out) >= 1 /\ out = response.Value \o "\n")
        /\ (err # NoError => out = "" /\ Count("Write") = 0)

C10_Witness ==
    /\ pc = "done"
    /\ err = Wrapf("could not create http client: ", HttpClientErr)
    /\ out = ""

====
